---- MODULE Spec2Model ----
(***************************************************************************)
(* A model of src/typescript/src/closure.ts: the debugger-session client.  *)
(*                                                                         *)
(*   getNextPausedEvent        one-shot wait for 'Debugger.paused'         *)
(*   handleBreakpointHit       closure-variable snapshot of a pause event  *)
(*   extractSourceMapUrl       sourceMappingURL marker extraction          *)
(*   resolveScriptIdToFile     one Debugger.getScriptSource lookup         *)
(*   resolveMultipleScriptIds  a sequence of lookups                       *)
(*                                                                         *)
(* An async function is modelled by its atomic sections: the call runs to  *)
(* the first await, and each resumption runs from the settled await to the *)
(* next await or to the return.  The session settles requests on its own.  *)
(***************************************************************************)
EXTENDS Integers, Sequences, FiniteSets, TLC

\* ------------------------------------------------------------------ bounds
MaxIds == 3          \* longest scriptIds array given to resolveMultipleScriptIds
MaxScopes == 2       \* longest scope chain of the innermost call frame
MaxProps == 1        \* longest property list a Runtime.getProperties reply carries
MaxWaits == 2        \* calls of getNextPausedEvent on the session
MaxEvents == 3       \* Debugger.paused notifications the session emits
MaxLen == 5          \* longest fileContent, in tokens
MaxPayload == 4      \* longest base64SourceMap, in symbols

\* ------------------------------------------------------------ JS values
Undefined == [kind |-> "undefined"]     \* the JS value undefined (an absent result)
Null == [kind |-> "null"]               \* the JS value null
NoMatch == [found |-> FALSE, index |-> 0, group |-> <<>>]

SeqsUpTo(S, n) == UNION {[1..k -> S] : k \in 0..n}

ScriptIds == {"a", "b", "c"}

VARIABLES
  \* the inspector session's request/response channel
  reqLog,      \* every request posted, in posting order
  inflight,    \* indices into reqLog of the requests not yet settled
  replies,     \* index into reqLog -> the outcome the session settled it with
  \* resolveScriptIdToFile / resolveMultipleScriptIds
  entry,       \* which exported function the caller invoked
  rpc,         \* "idle" | "awaiting" | "returned" | "threw"
  scriptIds,   \* the scriptIds argument (a one-element array for resolveScriptIdToFile)
  idx,         \* position of the for..of loop in scriptIds
  results,     \* the results array of resolveMultipleScriptIds
  retval,      \* what the promise of a resolveScriptIdToFile call settled with
  curReqs,     \* requests posted by the running resolveScriptIdToFile invocation
  roLog,       \* completed resolveScriptIdToFile invocations
  \* handleBreakpointHit
  hpc,             \* "idle" | "awaiting" | "returned" | "threw"
  callFrames,      \* params.callFrames of the pause event handed in
  sidx,            \* position of the for..of loop in the scope chain
  variableValues,  \* the snapshot being accumulated, returned at the end
  hawait,          \* the request the function is suspended on
  \* getNextPausedEvent
  listeners,   \* the session's listeners for 'Debugger.paused', in order
  futures,     \* call of getNextPausedEvent -> state of the promise it returned
  emitted,     \* the Debugger.paused notifications emitted so far
  regAt,       \* call -> Len(emitted) when its listener was registered
  registered,  \* call -> listeners it has added to the session
  delivered,   \* call -> invocations of its listener callback
  \* extractSourceMapUrl
  epc,         \* "idle" | "returned"
  fileContent, \* the argument
  match,       \* fileContent.match(sourceMapRegex)
  smUrl,       \* the return value
  \* getSourceMapJSON
  dpc,               \* "idle" | "returned" | "threw"
  base64SourceMap,   \* the argument
  sourceMapContent,  \* Buffer.from(base64SourceMap, 'base64').toString()
  sourceMapJSON      \* the return value

sessVars == <<reqLog, inflight, replies>>
resolveVars == <<entry, rpc, scriptIds, idx, results, retval, curReqs, roLog>>
scopeVars == <<hpc, callFrames, sidx, variableValues, hawait>>
waitVars == <<listeners, futures, emitted, regAt, registered, delivered>>
extractVars == <<epc, fileContent, match, smUrl>>
decodeVars == <<dpc, base64SourceMap, sourceMapContent, sourceMapJSON>>

\* --------------------------------------------------------------- session

\* session.post appends the request and leaves it outstanding.
PostAll(reqs) ==
  /\ reqLog' = reqLog \o reqs
  /\ inflight' = inflight \cup (Len(reqLog) + 1 .. Len(reqLog) + Len(reqs))
  /\ replies' = replies

Posted(reqs) == [k \in 1..Len(reqs) |-> Len(reqLog) + k]

\* The source text the debuggee holds for a script id.
ScriptSource(id) == <<"source of", id>>

Fulfilled(v) == [ok |-> TRUE, result |-> v]
Rejected(e) == [ok |-> FALSE, error |-> e]

\* What the session may answer to a Debugger.getScriptSource request.
ScriptSourceOutcomes(req) ==
  { Fulfilled([kind |-> "object", scriptSource |-> ScriptSource(req.scriptId)]),
    Rejected("No script for id") }

\* --------------------------------------------- resolveScriptIdToFile

\* Mutant: the request is posted for a fixed id instead of the argument.
ScriptSourceRequestsWrongId(scriptId) ==
  << [method |-> "Debugger.getScriptSource", scriptId |-> "a"] >>

\* Line 71: session.post('Debugger.getScriptSource', { scriptId }).
ScriptSourceRequests(scriptId) ==
  << [method |-> "Debugger.getScriptSource", scriptId |-> scriptId] >>

\* Mutant: the catch block rethrows.
resolveScriptIdToFileRethrow(outcome, scriptId) ==
  IF outcome.ok
    THEN [threw |-> FALSE, value |-> outcome.result]
    ELSE [threw |-> TRUE, value |-> [kind |-> "error", message |-> outcome.error]]

\* Lines 70-77 after the await: the try block returns the result, the catch
\* block logs and returns undefined.  logger.* does not throw.
resolveScriptIdToFile(outcome, scriptId) ==
  IF outcome.ok
    THEN [threw |-> FALSE, value |-> outcome.result]
    ELSE [threw |-> FALSE, value |-> Undefined]

RoEntry(scriptId, reqs, r) ==
  [scriptId |-> scriptId, reqs |-> reqs, threw |-> r.threw, value |-> r.value]

\* ------------------------------------------ resolveMultipleScriptIds

\* Mutant: only truthy results are kept.
PushResultSkipAbsent(res, r, scriptId) ==
  IF r.threw
    THEN Append(res, [kind |-> "object", scriptId |-> scriptId,
                      filePath |-> <<"Error: ", r.value>>])
    ELSE IF r.value = Undefined THEN res ELSE Append(res, r.value)

\* Mutant: an absent result is pushed as the synthetic record.
PushResultRecordAbsent(res, r, scriptId) ==
  IF r.threw \/ r.value = Undefined
    THEN Append(res, [kind |-> "object", scriptId |-> scriptId,
                      filePath |-> <<"Error: ", r.value>>])
    ELSE Append(res, r.value)

\* Lines 83-89: push the awaited result, or in the catch block the synthetic
\* record { scriptId, filePath: 'Error: ' + message }.
PushResult(res, r, scriptId) ==
  IF r.threw
    THEN Append(res, [kind |-> "object", scriptId |-> scriptId,
                      filePath |-> <<"Error: ", r.value>>])
    ELSE Append(res, r.value)

\* A caller invokes resolveScriptIdToFile(session, id): runs to the await.
CallResolveOne(id) ==
  /\ UNCHANGED <<scopeVars, waitVars, extractVars, decodeVars>>
  /\ rpc = "idle"
  /\ entry' = "resolveScriptIdToFile"
  /\ scriptIds' = <<id>>
  /\ idx' = 1
  /\ PostAll(ScriptSourceRequests(id))
  /\ curReqs' = Posted(ScriptSourceRequests(id))
  /\ rpc' = "awaiting"
  /\ UNCHANGED <<results, retval, roLog>>

\* The awaited request has settled: the rest of resolveScriptIdToFile runs.
ResumeResolveOne ==
  /\ UNCHANGED <<scopeVars, waitVars, extractVars, decodeVars>>
  /\ entry = "resolveScriptIdToFile"
  /\ rpc = "awaiting"
  /\ curReqs # <<>>
  /\ curReqs[Len(curReqs)] \in DOMAIN replies
  /\ LET r == resolveScriptIdToFile(replies[curReqs[Len(curReqs)]], scriptIds[1])
     IN /\ roLog' = Append(roLog, RoEntry(scriptIds[1], curReqs, r))
        /\ rpc' = IF r.threw THEN "threw" ELSE "returned"
        /\ retval' = r.value
  /\ UNCHANGED <<entry, scriptIds, idx, results, curReqs>>
  /\ UNCHANGED sessVars

\* Mutant: the requests for all ids are posted at once.
CallResolveManyConcurrent(ids) ==
  /\ UNCHANGED <<scopeVars, waitVars, extractVars, decodeVars>>
  /\ rpc = "idle"
  /\ entry' = "resolveMultipleScriptIds"
  /\ scriptIds' = ids
  /\ results' = <<>>
  /\ idx' = 1
  /\ IF ids = <<>>
       THEN /\ rpc' = "returned"
            /\ curReqs' = <<>>
            /\ UNCHANGED sessVars
       ELSE /\ rpc' = "awaiting"
            /\ PostAll([k \in 1..Len(ids) |-> ScriptSourceRequests(ids[k])[1]])
            /\ curReqs' = Posted(ScriptSourceRequests(ids[1]))
  /\ UNCHANGED <<retval, roLog>>

\* A caller invokes resolveMultipleScriptIds(session, ids): an empty array
\* returns at once, otherwise the first iteration runs to its await.
CallResolveMany(ids) ==
  /\ UNCHANGED <<scopeVars, waitVars, extractVars, decodeVars>>
  /\ rpc = "idle"
  /\ entry' = "resolveMultipleScriptIds"
  /\ scriptIds' = ids
  /\ results' = <<>>
  /\ idx' = 1
  /\ IF ids = <<>>
       THEN /\ rpc' = "returned"
            /\ curReqs' = <<>>
            /\ UNCHANGED sessVars
       ELSE /\ rpc' = "awaiting"
            /\ PostAll(ScriptSourceRequests(ids[1]))
            /\ curReqs' = Posted(ScriptSourceRequests(ids[1]))
  /\ UNCHANGED <<retval, roLog>>

\* The awaited request has settled: resolveScriptIdToFile finishes, the loop
\* body pushes, and the loop goes on to the next await or to the return.
ResumeResolveMany ==
  /\ UNCHANGED <<scopeVars, waitVars, extractVars, decodeVars>>
  /\ entry = "resolveMultipleScriptIds"
  /\ rpc = "awaiting"
  /\ curReqs # <<>>
  /\ curReqs[Len(curReqs)] \in DOMAIN replies
  /\ LET r == resolveScriptIdToFile(replies[curReqs[Len(curReqs)]], scriptIds[idx])
         res == PushResult(results, r, scriptIds[idx])
     IN /\ roLog' = Append(roLog, RoEntry(scriptIds[idx], curReqs, r))
        /\ results' = res
        /\ IF idx < Len(scriptIds)
             THEN /\ idx' = idx + 1
                  /\ PostAll(ScriptSourceRequests(scriptIds[idx + 1]))
                  /\ curReqs' = Posted(ScriptSourceRequests(scriptIds[idx + 1]))
                  /\ UNCHANGED rpc
             ELSE /\ rpc' = "returned"
                  /\ UNCHANGED <<idx, curReqs>>
                  /\ UNCHANGED sessVars
  /\ UNCHANGED <<entry, scriptIds, retval>>

\* ------------------------------------------------ pause events

ScopeTypes == {"closure", "local"}
Names == {"a", "b"}

\* Scope s of frame f; every scope object has its own objectId.
Scope(f, s, type) == [type |-> type, objectId |-> <<f, s>>]
Frame(f, types) == [scopeChain |-> [s \in 1..Len(types) |-> Scope(f, s, types[s])]]

\* The callers' frames above the innermost one: none, or one frame that
\* itself has a closure scope.
OuterFrames == { <<>>, << Frame(2, <<"closure">>) >> }

\* params.callFrames of a Debugger.paused notification, innermost frame first.
CallFrameLists ==
  { <<>> } \cup
  { <<Frame(1, types)>> \o outer :
      types \in SeqsUpTo(ScopeTypes, MaxScopes), outer \in OuterFrames }

\* A PropertyDescriptor's value: the descriptor has no value field (an
\* accessor property), or a RemoteObject without a value field (an object
\* handle, undefined), or a RemoteObject carrying a primitive.
NoValue == [present |-> FALSE, value |-> "undefined"]
ObjectRef == [present |-> TRUE, value |-> "undefined"]
Primitive(v) == [present |-> TRUE, value |-> v]
Primitives == {"0", "1"}
PropValues == {NoValue, ObjectRef} \cup {Primitive(v) : v \in Primitives}
\* The descriptors a reply is built from: "a" with every kind of value, "b"
\* as an accessor property or holding "1".
Descriptors ==
  [name : {"a"}, value : PropValues] \cup
  [name : {"b"}, value : {NoValue, Primitive("1")}]

\* What the session may answer to a Runtime.getProperties request.
PropertiesOutcomes(req) ==
  { Rejected("Could not find object with given id") } \cup
  { Fulfilled([result |-> props]) : props \in SeqsUpTo(Descriptors, MaxProps) }

Outcomes(req) ==
  IF req.method = "Debugger.getScriptSource"
    THEN ScriptSourceOutcomes(req)
    ELSE PropertiesOutcomes(req)

\* The session settles one outstanding request, with a result or an error.
SessionSettle ==
  \E k \in inflight :
    /\ \E o \in Outcomes(reqLog[k]) : replies' = (k :> o) @@ replies
    /\ inflight' = inflight \ {k}
    /\ UNCHANGED reqLog
    /\ UNCHANGED <<resolveVars, scopeVars, waitVars, extractVars, decodeVars>>

\* --------------------------------------------- handleBreakpointHit

NoSnapshot == <<>>        \* {} : a snapshot without keys

\* Mutant: every scope of the chain is queried.
RequestedAnyType(scope) == TRUE

\* Line 21: only closure scopes are queried.
Requested(scope) == scope.type = "closure"

\* Lines 23-28: the Runtime.getProperties request for a scope.
GetPropertiesRequest(scope) ==
  [method |-> "Runtime.getProperties",
   objectId |-> scope.objectId,
   ownProperties |-> FALSE,
   accessorPropertiesOnly |-> FALSE,
   generatePreview |-> FALSE]

\* Mutant: the value test is dropped.
InsertPropAlways(vv, prop) == (prop.name :> prop.value.value) @@ vv

\* Mutant: a name already in the snapshot is kept.
InsertPropFirstWins(vv, prop) ==
  IF prop.value.present /\ prop.value.value # "undefined"
    THEN vv @@ (prop.name :> prop.value.value)
    ELSE vv

\* Mutant: the value is tested for truthiness.
InsertPropTruthy(vv, prop) ==
  IF prop.value.present /\ prop.value.value \notin {"undefined", "0"}
    THEN (prop.name :> prop.value.value) @@ vv
    ELSE vv

\* Lines 37-39: if (prop.value && prop.value.value !== undefined)
\*                variableValues[prop.name] = prop.value.value
InsertProp(vv, prop) ==
  IF prop.value.present /\ prop.value.value # "undefined"
    THEN (prop.name :> prop.value.value) @@ vv
    ELSE vv

\* Lines 36-40: the loop over result.result.
RECURSIVE MergeProps(_, _)
MergeProps(vv, props) ==
  IF props = <<>>
    THEN vv
    ELSE MergeProps(InsertProp(vv, Head(props)), Tail(props))

\* Mutant: a failed request discards what was accumulated.
AfterGetPropertiesReset(vv, outcome) ==
  IF outcome.ok THEN MergeProps(vv, outcome.result.result) ELSE NoSnapshot

\* Lines 29-35: .catch turns a rejection into null, and null is skipped.
AfterGetProperties(vv, outcome) ==
  IF outcome.ok THEN MergeProps(vv, outcome.result.result) ELSE vv

\* The first scope at or after position from that the loop queries, or
\* Len(scopes) + 1 when the loop runs out.
RECURSIVE NextRequested(_, _)
NextRequested(scopes, from) ==
  IF from > Len(scopes) \/ Requested(scopes[from])
    THEN from
    ELSE NextRequested(scopes, from + 1)

\* The loop runs from position from to its next await, or to the return.
RunScopeLoop(scopes, from, vv) ==
  LET k == NextRequested(scopes, from)
  IN /\ sidx' = k
     /\ variableValues' = vv
     /\ IF k > Len(scopes)
          THEN /\ hpc' = "returned"
               /\ UNCHANGED hawait
               /\ UNCHANGED sessVars
          ELSE /\ hpc' = "awaiting"
               /\ PostAll(<<GetPropertiesRequest(scopes[k])>>)
               /\ hawait' = Len(reqLog) + 1

\* A caller invokes handleBreakpointHit(session, { params }).  Line 17 reads
\* callFrames[0].scopeChain: with no frame, callFrames[0] is undefined and the
\* read throws a TypeError, which rejects the function's promise.
CallHandleBreakpointHit(frames) ==
  /\ hpc = "idle"
  /\ callFrames' = frames
  /\ IF frames = <<>>
       THEN /\ hpc' = "threw"
            /\ UNCHANGED <<sidx, variableValues, hawait>>
            /\ UNCHANGED sessVars
       ELSE RunScopeLoop(frames[1].scopeChain, 1, NoSnapshot)
  /\ UNCHANGED <<resolveVars, waitVars, extractVars, decodeVars>>

\* The awaited request has settled: its properties are merged (or the scope
\* is skipped) and the loop goes on.
ResumeHandleBreakpointHit ==
  /\ hpc = "awaiting"
  /\ hawait \in DOMAIN replies
  /\ RunScopeLoop(callFrames[1].scopeChain, sidx + 1,
                  AfterGetProperties(variableValues, replies[hawait]))
  /\ UNCHANGED callFrames
  /\ UNCHANGED <<resolveVars, waitVars, extractVars, decodeVars>>

\* ------------------------------------------------ getNextPausedEvent

Waits == 1..MaxWaits
PauseReasons == {"other", "debugCommand"}

\* The n-th Debugger.paused notification of the session.
PausedEvent(n) == [n |-> n, reason |-> emitted[n]]

Pending == [state |-> "pending", value |-> [n |-> 0, reason |-> "none"]]
NotCalled == [state |-> "none", value |-> [n |-> 0, reason |-> "none"]]

\* Mutant: session.on instead of session.once.
PausedListenerOn(w) == [wait |-> w, once |-> FALSE]

\* Line 9: session.once('Debugger.paused', callback).
PausedListener(w) == [wait |-> w, once |-> TRUE]

\* Mutant: the callback rejects.
OnPausedReject(future, params) ==
  IF future.state = "pending"
    THEN [state |-> "rejected", value |-> params]
    ELSE future

\* Lines 10-11: the callback logs and calls resolve(params); resolving a
\* promise that is already settled does nothing.
OnPaused(future, params) ==
  IF future.state = "pending"
    THEN [state |-> "fulfilled", value |-> params]
    ELSE future

\* Mutant: the session keeps one listener, a registration replaces it.
CallGetNextPausedEventReplace(w) ==
  /\ futures[w].state = "none"
  /\ futures' = [futures EXCEPT ![w] = Pending]
  /\ listeners' = <<PausedListener(w)>>
  /\ regAt' = [regAt EXCEPT ![w] = Len(emitted)]
  /\ registered' = [registered EXCEPT ![w] = @ + 1]
  /\ UNCHANGED <<emitted, delivered>>
  /\ UNCHANGED <<sessVars, resolveVars, scopeVars, extractVars, decodeVars>>

\* Lines 7-13: the executor runs at once and registers the listener; the
\* promise is returned pending.
CallGetNextPausedEvent(w) ==
  /\ futures[w].state = "none"
  /\ futures' = [futures EXCEPT ![w] = Pending]
  /\ listeners' = Append(listeners, PausedListener(w))
  /\ regAt' = [regAt EXCEPT ![w] = Len(emitted)]
  /\ registered' = [registered EXCEPT ![w] = @ + 1]
  /\ UNCHANGED <<emitted, delivered>>
  /\ UNCHANGED <<sessVars, resolveVars, scopeVars, extractVars, decodeVars>>

Invocations(w) == Len(SelectSeq(listeners, LAMBDA l : l.wait = w))

RECURSIVE InvokeAll(_, _, _)
InvokeAll(fs, ls, params) ==
  IF ls = <<>>
    THEN fs
    ELSE InvokeAll([fs EXCEPT ![Head(ls).wait] = OnPaused(@, params)],
                   Tail(ls), params)

\* The session emits 'Debugger.paused': every listener registered at that
\* moment is invoked in order, a once-listener being removed before its call.
EmitPaused(reason) ==
  /\ Len(emitted) < MaxEvents
  /\ emitted' = Append(emitted, reason)
  /\ listeners' = SelectSeq(listeners, LAMBDA l : ~l.once)
  /\ futures' = InvokeAll(futures, listeners,
                          [n |-> Len(emitted) + 1, reason |-> reason])
  /\ delivered' = [w \in Waits |-> delivered[w] + Invocations(w)]
  /\ UNCHANGED <<regAt, registered>>
  /\ UNCHANGED <<sessVars, resolveVars, scopeVars, extractVars, decodeVars>>

\* ------------------------------------------------ extractSourceMapUrl

\* A text is a sequence of tokens.  "M" is the marker prefix written on one
\* line (//# or //@, blanks, sourceMappingURL=); "P" is //# or //@ alone and
\* "S" is sourceMappingURL= alone, so that P S reads like M; "NL" is a line
\* terminator; "B" is the substring base64, and "x" any other character.
Tokens == {"M", "P", "S", "NL", "B", "x"}
Texts == SeqsUpTo(Tokens, MaxLen)

String(chars) == [kind |-> "string", chars |-> chars]

\* (.+)$ : `.` matches no line terminator and, with the m flag, `$` matches
\* before one: the group runs to the end of the line.
RECURSIVE LineEnd(_, _)
LineEnd(text, i) ==
  IF i > Len(text) \/ text[i] = "NL" THEN i ELSE LineEnd(text, i + 1)

\* \s* : a line terminator is whitespace too.
RECURSIVE SkipSpace(_, _)
SkipSpace(text, i) ==
  IF i <= Len(text) /\ text[i] = "NL" THEN SkipSpace(text, i + 1) ELSE i

\* \/\/[#@]\s*sourceMappingURL= tried at position i: the position after it,
\* or 0 when it does not match there.
PrefixEnd(text, i) ==
  IF text[i] = "M"
    THEN i + 1
    ELSE IF text[i] = "P"
      THEN LET j == SkipSpace(text, i + 1)
           IN IF j <= Len(text) /\ text[j] = "S" THEN j + 1 ELSE 0
      ELSE 0

\* The whole regex tried at position i.  Positions count from 1.
MatchAt(text, i) ==
  LET j == PrefixEnd(text, i)
  IN IF j = 0
       THEN NoMatch
       ELSE LET e == LineEnd(text, j)
            IN IF e > j
                 THEN [found |-> TRUE, index |-> i, group |-> SubSeq(text, j, e - 1)]
                 ELSE NoMatch

RECURSIVE ScanFrom(_, _)
ScanFrom(text, i) ==
  IF i > Len(text)
    THEN NoMatch
    ELSE IF MatchAt(text, i).found
      THEN MatchAt(text, i)
      ELSE ScanFrom(text, i + 1)

RECURSIVE ScanBackFrom(_, _)
ScanBackFrom(text, i) ==
  IF i < 1
    THEN NoMatch
    ELSE IF MatchAt(text, i).found
      THEN MatchAt(text, i)
      ELSE ScanBackFrom(text, i - 1)

\* Mutant: the last match of the text is taken.
StringMatchLast(text) == ScanBackFrom(text, Len(text))

\* Lines 49-50: fileContent.match(sourceMapRegex), a regex without the g
\* flag: the leftmost match.
StringMatch(text) == ScanFrom(text, 1)

\* str.indexOf('base64,') from position from: 0 when there is none.
RECURSIVE IndexOfBase64(_, _)
IndexOfBase64(str, from) ==
  IF from > Len(str)
    THEN 0
    ELSE IF str[from] = "B" THEN from ELSE IndexOfBase64(str, from + 1)

\* Line 53: str.split('base64,')[1], the piece between the first separator
\* and the next one (or the end).
SplitBase64Second(str) ==
  LET b == IndexOfBase64(str, 1)
      c == IndexOfBase64(str, b + 1)
  IN SubSeq(str, b + 1, IF c = 0 THEN Len(str) ELSE c - 1)

\* Lines 51-57.
SourceMapUrlOf(m) ==
  IF m.found
    THEN IF IndexOfBase64(m.group, 1) > 0
           THEN String(SplitBase64Second(m.group))
           ELSE String(m.group)
    ELSE Null

\* A caller invokes extractSourceMapUrl(fileContent).
CallExtractSourceMapUrl ==
  /\ epc = "idle"
  /\ \E text \in Texts :
       /\ fileContent' = text
       /\ match' = StringMatch(text)
       /\ smUrl' = SourceMapUrlOf(StringMatch(text))
  /\ epc' = "returned"
  /\ UNCHANGED <<sessVars, resolveVars, scopeVars, waitVars, decodeVars>>

\* --------------------------------------------------- getSourceMapJSON

\* A payload is a sequence of symbols.  "[", "]" and "x" are runs of base64
\* characters that decode to that character of the text; "!" is a character
\* outside the base64 alphabet.
PayloadSymbols == {"[", "]", "x", "!"}
Payloads == SeqsUpTo(PayloadSymbols, MaxPayload)

\* Line 61: Buffer.from(str, 'base64').toString().  The decoder does not
\* throw: characters outside the alphabet are dropped and the rest decoded.
Base64Decode(payload) == SelectSeq(payload, LAMBDA c : c # "!")

\* A JSON parser for the texts over "[", "]", "x": it reads one value at
\* position i and answers the position after it and the nesting depth of
\* the value read, or fails.  An array holds no element or one array.
RECURSIVE ParseValue(_, _)
ParseValue(text, i) ==
  IF i > Len(text) \/ text[i] # "["
    THEN [ok |-> FALSE, next |-> i, depth |-> 0]
    ELSE IF i < Len(text) /\ text[i + 1] = "]"
      THEN [ok |-> TRUE, next |-> i + 2, depth |-> 1]
      ELSE LET inner == ParseValue(text, i + 1)
           IN IF inner.ok /\ inner.next <= Len(text) /\ text[inner.next] = "]"
                THEN [ok |-> TRUE, next |-> inner.next + 1, depth |-> inner.depth + 1]
                ELSE [ok |-> FALSE, next |-> i, depth |-> 0]

Document(depth) == [kind |-> "object", depth |-> depth]

\* Line 62: JSON.parse(text) returns the document, or throws a SyntaxError
\* when the text is not one JSON value.
JSONParse(text) ==
  LET v == ParseValue(text, 1)
  IN IF v.ok /\ v.next = Len(text) + 1
       THEN [threw |-> FALSE, value |-> Document(v.depth)]
       ELSE [threw |-> TRUE, value |-> Undefined]

\* Lines 60-66: what the try block returns, or null from the catch block,
\* which logs.  logger.error does not throw.
getSourceMapJSON(payload) ==
  LET parsed == JSONParse(Base64Decode(payload))
  IN IF parsed.threw
       THEN [threw |-> FALSE, value |-> Null]
       ELSE [threw |-> FALSE, value |-> parsed.value]

\* A caller invokes getSourceMapJSON(base64SourceMap).
CallGetSourceMapJSON ==
  /\ dpc = "idle"
  /\ \E payload \in Payloads :
       /\ base64SourceMap' = payload
       /\ sourceMapContent' = Base64Decode(payload)
       /\ sourceMapJSON' = getSourceMapJSON(payload).value
       /\ dpc' = IF getSourceMapJSON(payload).threw THEN "threw" ELSE "returned"
  /\ UNCHANGED <<sessVars, resolveVars, scopeVars, waitVars, extractVars>>

vars == <<sessVars, resolveVars, scopeVars, waitVars, extractVars, decodeVars>>

Init ==
  /\ reqLog = <<>>
  /\ inflight = {}
  /\ replies = <<>>
  /\ entry = "none"
  /\ rpc = "idle"
  /\ scriptIds = <<>>
  /\ idx = 1
  /\ results = <<>>
  /\ retval = Undefined
  /\ curReqs = <<>>
  /\ roLog = <<>>
  /\ hpc = "idle"
  /\ callFrames = <<>>
  /\ sidx = 1
  /\ variableValues = NoSnapshot
  /\ hawait = 0
  /\ listeners = <<>>
  /\ futures = [w \in Waits |-> NotCalled]
  /\ emitted = <<>>
  /\ regAt = [w \in Waits |-> 0]
  /\ registered = [w \in Waits |-> 0]
  /\ delivered = [w \in Waits |-> 0]
  /\ epc = "idle"
  /\ fileContent = <<>>
  /\ match = NoMatch
  /\ smUrl = Null
  /\ dpc = "idle"
  /\ base64SourceMap = <<>>
  /\ sourceMapContent = <<>>
  /\ sourceMapJSON = Null

NextResolve ==
  \/ \E id \in ScriptIds : CallResolveOne(id)
  \/ ResumeResolveOne
  \/ \E ids \in SeqsUpTo(ScriptIds, MaxIds) : CallResolveMany(ids)
  \/ ResumeResolveMany
  \/ SessionSettle

SpecResolve == Init /\ [][NextResolve]_vars

NextScope ==
  \/ \E frames \in CallFrameLists : CallHandleBreakpointHit(frames)
  \/ ResumeHandleBreakpointHit
  \/ SessionSettle

SpecScope == Init /\ [][NextScope]_vars

NextWait ==
  \/ \E w \in Waits : CallGetNextPausedEvent(w)
  \/ \E reason \in PauseReasons : EmitPaused(reason)

SpecWait == Init /\ [][NextWait]_vars

NextExtract == CallExtractSourceMapUrl

SpecExtract == Init /\ [][NextExtract]_vars

NextDecode == CallGetSourceMapJSON

SpecDecode == Init /\ [][NextDecode]_vars

\* One run on a session: either resolveMultipleScriptIds or
\* handleBreakpointHit is called, once, and runs as its requests settle.
NextRuns ==
  \/ /\ hpc = "idle"
     /\ \E ids \in SeqsUpTo(ScriptIds, MaxIds) : CallResolveMany(ids)
  \/ ResumeResolveMany
  \/ /\ rpc = "idle"
     /\ \E frames \in CallFrameLists : CallHandleBreakpointHit(frames)
  \/ ResumeHandleBreakpointHit
  \/ SessionSettle

SpecRuns == Init /\ [][NextRuns]_vars

\* The continuation of an await runs once the awaited promise has settled,
\* and the session settles every request it was sent.
SpecRunsFair ==
  /\ SpecRuns
  /\ WF_vars(ResumeResolveMany)
  /\ WF_vars(ResumeHandleBreakpointHit)
  /\ WF_vars(SessionSettle)

\* ================================================================ claims

Max(S) == CHOOSE x \in S : \A y \in S : y <= x
Min(S) == CHOOSE x \in S : \A y \in S : x <= y

\* ---------------------------------------------------- ScriptSourceResolver

\* The request for the i-th id of a resolveMultipleScriptIds run is the i-th
\* request posted on the session.
FailedIndexes ==
  {i \in 1..Len(scriptIds) : i \in DOMAIN replies /\ ~replies[i].ok}

\* A failure record: it carries the script id and a cause.
IsFailureRecord(v, id) ==
  /\ DOMAIN v = {"kind", "scriptId", "filePath"}
  /\ v.scriptId = id

IsOutcomeFor(v, i) ==
  /\ i \in DOMAIN replies
  /\ reqLog[i].scriptId = scriptIds[i]
  /\ IF replies[i].ok
       THEN v = replies[i].result
       ELSE v = Undefined \/ IsFailureRecord(v, scriptIds[i])

\* C1: resolveMultipleScriptIds never throws, and when it returns, the result
\* has one element per input id, the i-th being the outcome of the request
\* for the i-th id, whatever requests failed.
C1_ResolveManyTotal ==
  entry = "resolveMultipleScriptIds" =>
    /\ rpc # "threw"
    /\ Len(results) <= Len(scriptIds)
    /\ rpc = "returned" => Len(results) = Len(scriptIds)
    /\ \A i \in 1..Len(results) : IsOutcomeFor(results[i], i)

C1_Witness ==
  /\ entry = "resolveMultipleScriptIds"
  /\ rpc = "returned"
  /\ Len(scriptIds) = 3
  /\ Cardinality(FailedIndexes) = 2

\* C2: when exactly one request of a resolveMultipleScriptIds run failed, the
\* result holds a failure record naming that id at its index and the
\* resolved source at every other index.
C2_FailureRecordAtFailedIndex ==
  ( /\ entry = "resolveMultipleScriptIds"
    /\ rpc = "returned"
    /\ Cardinality(FailedIndexes) = 1 ) =>
      \A i \in 1..Len(scriptIds) :
        /\ i <= Len(results)
        /\ IF i \in FailedIndexes
             THEN IsFailureRecord(results[i], scriptIds[i])
             ELSE results[i] = replies[i].result

\* C7: every invocation of resolveScriptIdToFile posts exactly one
\* Debugger.getScriptSource request, for its id, and returns the raw result
\* when it succeeds and undefined when it fails; it never throws.
C7_ResolveOneAbsorbs ==
  /\ entry = "resolveScriptIdToFile" =>
       /\ rpc # "threw"
       /\ rpc = "returned" => Len(roLog) = 1 /\ retval = roLog[1].value
  /\ \A n \in 1..Len(roLog) :
       LET e == roLog[n]
       IN /\ ~e.threw
          /\ Len(e.reqs) = 1
          /\ reqLog[e.reqs[1]] =
               [method |-> "Debugger.getScriptSource", scriptId |-> e.scriptId]
          /\ IF replies[e.reqs[1]].ok
               THEN e.value = replies[e.reqs[1]].result
               ELSE e.value = Undefined

C7_Witness ==
  /\ entry = "resolveScriptIdToFile"
  /\ rpc = "returned"
  /\ ~replies[1].ok
  /\ retval = Undefined

\* ------------------------------------------------------------ ScopeExtractor

InnerScopes == callFrames[1].scopeChain

\* The properties the session returned for a scope, when it was queried and
\* the request succeeded.
PropertyLists(scope) ==
  { replies[k].result.result :
      k \in {j \in DOMAIN replies :
               reqLog[j].objectId = scope.objectId /\ replies[j].ok} }

\* A descriptor whose value is defined.
Defined(d) == d.value.present /\ d.value.value # "undefined"

\* Closure scope s of the innermost frame defines name.
Defines(s, name) ==
  /\ InnerScopes[s].type = "closure"
  /\ \E props \in PropertyLists(InnerScopes[s]) :
       \E j \in 1..Len(props) : props[j].name = name /\ Defined(props[j])

DefiningScopes(name) == {s \in 1..Len(InnerScopes) : Defines(s, name)}

\* The value scope s gives to name: that of its last defined descriptor.
ValueFrom(s, name) ==
  LET props == CHOOSE q \in PropertyLists(InnerScopes[s]) : TRUE
      last == Max({j \in 1..Len(props) : props[j].name = name /\ Defined(props[j])})
  IN props[last].value.value

\* C3: handleBreakpointHit on a pause event without call frames returns an
\* empty snapshot, posts no request and does not fail.
C3_EmptyFramesEmptySnapshot ==
  (hpc # "idle" /\ callFrames = <<>>) =>
    /\ hpc = "returned"
    /\ variableValues = NoSnapshot
    /\ reqLog = <<>>

C6_OnlyPresentValues ==
  \A name \in DOMAIN variableValues :
    /\ callFrames # <<>>
    /\ \E s \in 1..Len(InnerScopes) :
         /\ InnerScopes[s].type = "closure"
         /\ \E props \in PropertyLists(InnerScopes[s]) :
              \E j \in 1..Len(props) :
                /\ props[j].name = name
                /\ props[j].value.present
                /\ props[j].value.value = variableValues[name]
                /\ variableValues[name] # "undefined"

C6_Witness ==
  /\ hpc = "returned"
  /\ \E s \in 1..Len(InnerScopes) :
       \E props \in PropertyLists(InnerScopes[s]) :
         \E j \in 1..Len(props) :
           /\ ~props[j].value.present
           /\ props[j].name \notin DOMAIN variableValues

\* A descriptor that carries a value, of whatever kind.
HasValue(d) == d.value.present

\* C12, as stated: after the return, every name for which a closure scope of
\* the innermost frame returned a descriptor with a value, primitive or
\* object reference, is a key of the snapshot.
C12_EveryValueInserted ==
  hpc = "returned" =>
    \A s \in 1..Len(InnerScopes) :
      \A props \in PropertyLists(InnerScopes[s]) :
        \A j \in 1..Len(props) :
          (InnerScopes[s].type = "closure" /\ HasValue(props[j])) =>
            props[j].name \in DOMAIN variableValues

\* C12, amended: after the return, the keys of the snapshot are exactly the
\* names for which a closure scope of the innermost frame returned a
\* descriptor whose value carries a defined primitive, falsy ones included.
C12_EveryPrimitiveInserted ==
  hpc = "returned" =>
    \A name \in Names :
      name \in DOMAIN variableValues <=> DefiningScopes(name) # {}

C12_Witness ==
  /\ hpc = "returned"
  /\ "a" \in DOMAIN variableValues
  /\ variableValues["a"] = "0"
  /\ "b" \notin DOMAIN variableValues

\* The requests posted for a scope, and the scopes the loop has gone past.
RequestsFor(scope) ==
  {k \in 1..Len(reqLog) : reqLog[k].objectId = scope.objectId}

Processed(s) == InnerScopes[s].type = "closure" /\ s < sidx

ProcessedDefining(name) == {s \in DefiningScopes(name) : Processed(s)}

FailedScopes ==
  {s \in 1..Len(InnerScopes) :
     \E k \in RequestsFor(InnerScopes[s]) : k \in DOMAIN replies /\ ~replies[k].ok}

\* C13: a failed Runtime.getProperties request does not fail the run; the
\* snapshot is at every moment what the successfully enumerated scopes the
\* loop has gone past give, so a failure neither changes earlier entries nor
\* adds any, and every closure scope is queried once whatever failed before.
C13_FailureIsolated ==
  /\ hpc = "threw" => callFrames = <<>>
  /\ hpc \in {"awaiting", "returned"} =>
       /\ \A s \in 1..Len(InnerScopes) :
            Processed(s) =>
              /\ Cardinality(RequestsFor(InnerScopes[s])) = 1
              /\ RequestsFor(InnerScopes[s]) \subseteq DOMAIN replies
       /\ \A name \in Names :
            IF ProcessedDefining(name) = {}
              THEN name \notin DOMAIN variableValues
              ELSE /\ name \in DOMAIN variableValues
                   /\ variableValues[name] =
                        ValueFrom(Max(ProcessedDefining(name)), name)
       /\ hpc = "returned" => sidx = Len(InnerScopes) + 1

C13_Witness ==
  /\ hpc = "returned"
  /\ \E s \in FailedScopes :
       \E name \in Names :
         /\ ProcessedDefining(name) # {}
         /\ Max(ProcessedDefining(name)) > s

\* The closure scopes of the innermost frame, in scope-chain order.
ClosureScopes == SelectSeq(InnerScopes, LAMBDA scope : scope.type = "closure")

\* C14: the requests posted are Runtime.getProperties requests for the
\* closure scopes of the innermost frame, one each and in scope-chain order,
\* with the three flags false; nothing else is requested.
C14_OnlyInnermostClosures ==
  IF callFrames = <<>>
    THEN reqLog = <<>>
    ELSE /\ Len(reqLog) <= Len(ClosureScopes)
         /\ \A k \in 1..Len(reqLog) :
              reqLog[k] = [method |-> "Runtime.getProperties",
                           objectId |-> ClosureScopes[k].objectId,
                           ownProperties |-> FALSE,
                           accessorPropertiesOnly |-> FALSE,
                           generatePreview |-> FALSE]
         /\ hpc = "returned" => Len(reqLog) = Len(ClosureScopes)

C14_Witness ==
  /\ hpc = "returned"
  /\ Len(callFrames) = 2
  /\ \E s \in 1..Len(InnerScopes) : InnerScopes[s].type = "local"
  /\ Len(reqLog) = 1

\* -------------------------------------------------------- SessionEventWaiter

ListenersOf(w) == {k \in 1..Len(listeners) : listeners[k].wait = w}

\* C4: a call of getNextPausedEvent adds exactly one listener; the first
\* notification emitted after that fulfils its promise with that notification
\* and removes the listener, and later notifications reach it no more.
C4_OneShot ==
  \A w \in Waits :
    futures[w].state # "none" =>
      /\ registered[w] = 1
      /\ IF Len(emitted) > regAt[w]
           THEN /\ futures[w] =
                     [state |-> "fulfilled", value |-> PausedEvent(regAt[w] + 1)]
                /\ delivered[w] = 1
                /\ ListenersOf(w) = {}
           ELSE /\ futures[w].state = "pending"
                /\ delivered[w] = 0
                /\ Cardinality(ListenersOf(w)) = 1

C4_Witness ==
  \E w \in Waits :
    /\ futures[w].state = "fulfilled"
    /\ Len(emitted) >= regAt[w] + 2

\* C8: the promise of getNextPausedEvent is never rejected, is fulfilled only
\* with a notification emitted after the listener was registered, and is
\* pending while no such notification has been emitted.
C8_OnlyPauseCompletes ==
  \A w \in Waits :
    /\ futures[w].state \in {"none", "pending", "fulfilled"}
    /\ futures[w].state = "fulfilled" =>
         \E n \in (regAt[w] + 1)..Len(emitted) : futures[w].value = PausedEvent(n)
    /\ (registered[w] > 0 /\ Len(emitted) = regAt[w]) =>
         futures[w].state = "pending"

C8_Witness ==
  /\ \E w \in Waits : futures[w].state = "fulfilled" /\ regAt[w] >= 1
  /\ \E w \in Waits : futures[w].state = "pending" /\ regAt[w] >= 1

\* ------------------------------------------------------------ SourceMapCodec

\* A marker line is a line that holds the marker, written on that line, with
\* a value after it; its value is the rest of the line after its first marker.
MarkerStart(text, i) ==
  IF text[i] = "M"
    THEN i + 1
    ELSE IF text[i] = "P" /\ i < Len(text) /\ text[i + 1] = "S" THEN i + 2 ELSE 0

EndOfLine(text, j) ==
  Min({e \in j..(Len(text) + 1) : e = Len(text) + 1 \/ text[e] = "NL"})

MarkerAt(text, i) ==
  /\ MarkerStart(text, i) # 0
  /\ EndOfLine(text, MarkerStart(text, i)) > MarkerStart(text, i)

MarkerPositions(text) == {i \in 1..Len(text) : MarkerAt(text, i)}

LineOf(text, i) == Cardinality({k \in 1..(i - 1) : text[k] = "NL"}) + 1

MarkerLines(text) == {LineOf(text, i) : i \in MarkerPositions(text)}

LineMarker(text, n) == Min({i \in MarkerPositions(text) : LineOf(text, i) = n})

LineValue(text, n) ==
  LET j == MarkerStart(text, LineMarker(text, n))
  IN SubSeq(text, j, EndOfLine(text, j) - 1)

\* The part of a value after base64, or the value when it has none.
PartAfterBase64(v) ==
  IF \E k \in 1..Len(v) : v[k] = "B"
    THEN SubSeq(v, Min({k \in 1..Len(v) : v[k] = "B"}) + 1, Len(v))
    ELSE v

SeveralMarkerValues(text) ==
  \E m, n \in MarkerLines(text) : LineValue(text, m) # LineValue(text, n)

\* C9: extractSourceMapUrl returns the value of the first marker line of the
\* text, reduced to the part after base64, when the value has one, and null
\* when the text has no marker line.
C9_FirstMarkerLine ==
  epc = "returned" =>
    smUrl = IF MarkerLines(fileContent) = {}
              THEN Null
              ELSE String(PartAfterBase64(
                     LineValue(fileContent, Min(MarkerLines(fileContent)))))

\* C10, as stated: with several marker lines of different values, the result
\* is the value of the last marker line.
C10_LastMarkerLine ==
  (epc = "returned" /\ SeveralMarkerValues(fileContent)) =>
    smUrl = String(PartAfterBase64(
              LineValue(fileContent, Max(MarkerLines(fileContent)))))

\* C10, amended: with several marker lines of different values, the match
\* the result is read from begins at or before the marker of the first
\* marker line, so before the last one; when it begins at that marker, the
\* matched value is the first marker line's value.
C10_FirstMatch ==
  (epc = "returned" /\ SeveralMarkerValues(fileContent)) =>
    LET first == LineMarker(fileContent, Min(MarkerLines(fileContent)))
        last == LineMarker(fileContent, Max(MarkerLines(fileContent)))
    IN /\ match.found
       /\ smUrl # Null
       /\ match.index <= first
       /\ match.index < last
       /\ match.index = first =>
            match.group = LineValue(fileContent, Min(MarkerLines(fileContent)))

C10_Witness ==
  /\ epc = "returned"
  /\ SeveralMarkerValues(fileContent)
  /\ match.index = LineMarker(fileContent, Min(MarkerLines(fileContent)))
  /\ smUrl = String(LineValue(fileContent, Min(MarkerLines(fileContent))))

\* ---------------------------------------------------------- decodeSourceMap

\* A payload is valid base64 when every character is of the alphabet, and it
\* then encodes the text of its symbols; a text is a JSON document when it is
\* k opening brackets and then k closing ones.
ValidBase64(payload) == \A k \in 1..Len(payload) : payload[k] # "!"

ValidJSON(text) ==
  /\ Len(text) >= 2
  /\ Len(text) % 2 = 0
  /\ \A k \in 1..Len(text) :
       text[k] = IF 2 * k <= Len(text) THEN "[" ELSE "]"

\* C11: getSourceMapJSON never throws; it returns null when the payload is
\* not valid base64 or its decoded text is not a JSON document, and the parsed
\* document otherwise.
C11_DecodeOrAbsent ==
  dpc # "idle" =>
    /\ dpc = "returned"
    /\ sourceMapJSON =
         IF ValidBase64(base64SourceMap) /\ ValidJSON(base64SourceMap)
           THEN Document(Len(base64SourceMap) \div 2)
           ELSE Null

\* ------------------------------------------------------ sequential requests

\* C15: within one run of handleBreakpointHit or resolveMultipleScriptIds at
\* most one request is outstanding, a request is only sent when every earlier
\* request of the run has settled, and resolveMultipleScriptIds sends them in
\* the order of its ids.
C15_Sequential ==
  /\ Cardinality(inflight) <= 1
  /\ \A k \in 1..Len(reqLog) : k < Len(reqLog) => k \in DOMAIN replies
  /\ rpc # "idle" =>
       \A k \in 1..Len(reqLog) : reqLog[k] = ScriptSourceRequests(scriptIds[k])[1]

C15_Witness ==
  /\ rpc = "awaiting"
  /\ Len(reqLog) = 2
  /\ inflight = {2}
  /\ ~replies[1].ok

\* C16: when every request settles, a called resolveMultipleScriptIds returns
\* after one request per id and a called handleBreakpointHit returns after one
\* request per closure scope of the innermost frame; while a request is
\* unsettled the run has not returned and that request is the last one sent.
C16_Terminates ==
  /\ (rpc # "idle") ~> (rpc = "returned" /\ Len(reqLog) = Len(scriptIds))
  /\ (hpc # "idle") ~> (hpc = "returned" /\ Len(reqLog) = Len(ClosureScopes))
  /\ [](inflight # {} =>
         /\ rpc # "returned"
         /\ hpc # "returned"
         /\ inflight = {Len(reqLog)})

\* ------------------------------------------------- the unreachable catch

RawResults == {replies[k].result : k \in {j \in DOMAIN replies : replies[j].ok}}

\* C17: no invocation of resolveScriptIdToFile made by
\* resolveMultipleScriptIds throws, so its catch block never runs, and every
\* element of the array it builds is the raw result of a request or undefined,
\* never the { scriptId, filePath } record.
C17_CatchUnreachable ==
  entry = "resolveMultipleScriptIds" =>
    /\ \A n \in 1..Len(roLog) : ~roLog[n].threw
    /\ \A i \in 1..Len(results) :
         /\ results[i] = Undefined \/ results[i] \in RawResults
         /\ "filePath" \notin DOMAIN results[i]

C17_Witness ==
  /\ entry = "resolveMultipleScriptIds"
  /\ rpc = "returned"
  /\ \E i, j \in 1..Len(results) :
       /\ i \in FailedIndexes
       /\ results[i] = Undefined
       /\ results[j] \in RawResults

\* ------------------------------------------------------- concurrent waits

\* C18: when two calls of getNextPausedEvent registered their listeners with
\* no notification emitted in between, the next notification fulfils both
\* promises with that same notification and removes both listeners; later
\* notifications reach neither.
C18_BothCompleted ==
  \A w1, w2 \in Waits :
    ( /\ w1 # w2
      /\ futures[w1].state # "none"
      /\ futures[w2].state # "none"
      /\ regAt[w1] = regAt[w2]
      /\ Len(emitted) > regAt[w1] ) =>
        /\ futures[w1].state = "fulfilled"
        /\ futures[w2] = futures[w1]
        /\ futures[w1].value = PausedEvent(regAt[w1] + 1)
        /\ ListenersOf(w1) \cup ListenersOf(w2) = {}
        /\ delivered[w1] = 1
        /\ delivered[w2] = 1

C18_Witness ==
  /\ regAt[1] = 0
  /\ regAt[2] = 0
  /\ futures[1].state = "fulfilled"
  /\ futures[2] = futures[1]
  /\ futures[1].value.n = 1
  /\ Len(emitted) >= 2

====
